---------------------------- MODULE Spec2Model ----------------------------
(***************************************************************************)
(* Game-state engine of Wumpus World (src/wumpus_world_bg_fixed.py):       *)
(* WumpusWorld.reset_game, WumpusWorld.move_player and                     *)
(* WumpusWorld.check_events, driven by the key dispatch of main().         *)
(*                                                                         *)
(* A grid cell is a Python list of Element tags that the engine only       *)
(* appends to, removes one occurrence from, and tests membership on; it    *)
(* is modelled as a bag of tags (the multiplicity of a tag is kept, the    *)
(* order of the list, which the engine never reads, is not).               *)
(***************************************************************************)
EXTENDS Integers, FiniteSets, Sequences, Bags, TLC

(* ------------------------------ constants ------------------------------ *)

GRID_SIZE == 4

PLAYER == "PLAYER"
WUMPUS == "WUMPUS"
PIT == "PIT"
GOLD == "GOLD"
BREEZE == "BREEZE"
STENCH == "STENCH"

Element == {PLAYER, WUMPUS, PIT, GOLD, BREEZE, STENCH}

Cells == (0 .. GRID_SIZE - 1) \X (0 .. GRID_SIZE - 1)

\* [GRID_SIZE-1, 0], the bottom-left corner
StartPos == <<GRID_SIZE - 1, 0>>

\* gx, gy = 0, GRID_SIZE-1, the top-right corner
PreferredGold == <<0, GRID_SIZE - 1>>

\* the neighbour offsets of the two stamping loops
AdjacentDeltas == {<<0, 1>>, <<1, 0>>, <<0, -1>>, <<-1, 0>>}

\* the (dx, dy) arguments main() passes for K_UP, K_DOWN, K_LEFT, K_RIGHT
K_UP == <<-1, 0>>
K_DOWN == <<1, 0>>
K_LEFT == <<0, -1>>
K_RIGHT == <<0, 1>>

Directions == {K_UP, K_DOWN, K_LEFT, K_RIGHT}

MsgInitial == "Find the gold and return to start!"
MsgFoundGold == "You found the gold! Return to start."
MsgPit == "You fell into a pit! Game Over."
MsgWumpus == "The Wumpus got you! Game Over."
MsgWon == "You won! You got the gold and returned safely."
MsgBreeze == "You feel a breeze"
MsgStench == "You smell a stench"
MsgBoth == "You feel a breeze & You smell a stench"
MsgFindGold == "Find the gold!"
MsgReturn == "Return to start with the gold!"

(* ------------------------------- bounds -------------------------------- *)

\* moves committed between two resets
MaxMoves == 4

\* The cells the random source is let to draw in the three rejection
\* loops of reset_game (random.randint(0, GRID_SIZE-1) twice).  Each set
\* holds cells the loop rejects as well as cells it accepts.
WumpusDraws == {StartPos, <<0, 3>>, <<2, 0>>, <<2, 1>>}
PitDraws == {StartPos, <<0, 3>>, <<1, 0>>, <<3, 1>>, <<2, 1>>}
GoldDraws == {StartPos, <<2, 0>>, <<3, 1>>, <<1, 0>>}

(* -------------------------------- state -------------------------------- *)

VARIABLES
    grid,        \* self.grid: per cell, the tags it holds
    player_pos,  \* self.player_pos: <<row, col>>
    has_gold,    \* self.has_gold
    game_over,   \* self.game_over
    win,         \* self.win
    message,     \* self.message
    visited,     \* self.visited: per cell, a boolean
    stats,       \* self.stats
    played,      \* the sounds the last call played, in order
    call,        \* the last call made on the game object, with its arguments
    event,       \* the key of the KEYDOWN event that made the call, if one did
    gen          \* where a running reset_game is: its loop, the pits left to place

vars ==
    <<grid, player_pos, has_gold, game_over, win, message, visited, stats,
      played, call, event, gen>>

\* the fields of the game object, as one value
Session ==
    [grid |-> grid, player_pos |-> player_pos, has_gold |-> has_gold,
     game_over |-> game_over, win |-> win, message |-> message,
     visited |-> visited, stats |-> stats, played |-> played]

(* ------------------------------- helpers ------------------------------- *)

\* 0 <= nx < GRID_SIZE and 0 <= ny < GRID_SIZE
InGrid(x, y) == 0 <= x /\ x < GRID_SIZE /\ 0 <= y /\ y < GRID_SIZE

\* Element.X in self.grid[r][c]
Has(g, cell, tag) == BagIn(tag, g[cell])

\* self.grid[r][c].append(tag)
GridAppend(g, cell, tag) == [g EXCEPT ![cell] = @ (+) SetToBag({tag})]

\* self.grid[r][c].remove(tag): one occurrence
GridRemove(g, cell, tag) == [g EXCEPT ![cell] = @ (-) SetToBag({tag})]

\* variant: a neighbour outside the grid wraps to the opposite edge
StampNeighbours_Wraps(g, cell, tag) ==
    [c \in Cells |->
        IF \E d \in AdjacentDeltas :
              c = <<(cell[1] + d[1]) % GRID_SIZE, (cell[2] + d[2]) % GRID_SIZE>>
        THEN g[c] (+) SetToBag({tag})
        ELSE g[c]]

\* for dx, dy in [...]: if the neighbour is in the grid, append tag to it
StampNeighbours(g, cell, tag) ==
    [c \in Cells |->
        IF \E d \in AdjacentDeltas :
              /\ InGrid(cell[1] + d[1], cell[2] + d[2])
              /\ c = <<cell[1] + d[1], cell[2] + d[2]>>
        THEN g[c] (+) SetToBag({tag})
        ELSE g[c]]

(* ----------------------------- reset_game ------------------------------ *)

\* [[[] for _ in range(GRID_SIZE)] for _ in range(GRID_SIZE)]
EmptyGrid == [c \in Cells |-> EmptyBag]

\* variant: the player's cell is not marked
InitialVisited_AllFalse == [c \in Cells |-> FALSE]

\* visited: all False, then the player's cell True
InitialVisited == [c \in Cells |-> c = StartPos]

\* the statistics reset_game writes
InitialStats == [moves |-> 0, pits_nearby |-> 0, wumpus_nearby |-> 0, cells_visited |-> 1]

\* variant: the Wumpus loop accepts every draw
WumpusAccepted_Any(pos, w) == TRUE

\* not (wx == player_pos[0] and wy == player_pos[1])
WumpusAccepted(pos, w) == ~(w[1] = pos[1] /\ w[2] = pos[2])

\* append WUMPUS at (wx, wy) and STENCH in the adjacent cells
PlaceWumpus(g, w) == StampNeighbours(GridAppend(g, w, WUMPUS), w, STENCH)

\* variant: the pit loop does not look for the Wumpus
PitAccepted_NoWumpusCheck(g, pos, p) == ~(p[1] = pos[1] /\ p[2] = pos[2])

\* variant: the pit loop also rejects a cell that already holds a Pit
PitAccepted_NoStacking(g, pos, p) ==
    ~(p[1] = pos[1] /\ p[2] = pos[2]) /\ ~Has(g, p, WUMPUS) /\ ~Has(g, p, PIT)

\* not (px, py) == player_pos and Element.WUMPUS not in grid[px][py]
PitAccepted(g, pos, p) == ~(p[1] = pos[1] /\ p[2] = pos[2]) /\ ~Has(g, p, WUMPUS)

\* append PIT at (px, py) and BREEZE in the adjacent cells
PlacePit(g, p) == StampNeighbours(GridAppend(g, p, PIT), p, BREEZE)

\* for _ in range(pit_count): the accepted draws pits[1..pit_count], in order
RECURSIVE PlacePits(_, _)
PlacePits(g, pits) ==
    IF pits = <<>> THEN g ELSE PlacePits(PlacePit(g, Head(pits)), Tail(pits))

\* every draw of pits is one its loop accepts, on the grid as it is then
RECURSIVE PitsAccepted(_, _, _)
PitsAccepted(g, pos, pits) ==
    IF pits = <<>> THEN TRUE
    ELSE /\ PitAccepted(g, pos, Head(pits))
         /\ PitsAccepted(PlacePit(g, Head(pits)), pos, Tail(pits))

\* the test that sends gold placement into its loop
PreferredUnsafe(g, pos) ==
    \/ (PreferredGold[1] = pos[1] /\ PreferredGold[2] = pos[2])
    \/ Has(g, PreferredGold, WUMPUS)
    \/ Has(g, PreferredGold, PIT)

\* variant: the gold loop does not look for a pit
GoldAccepted_NoPitCheck(g, pos, c) ==
    /\ ~(c[1] = pos[1] /\ c[2] = pos[2])
    /\ ~Has(g, c, WUMPUS)

\* the test that ends the gold loop
GoldAccepted(g, pos, c) ==
    /\ ~(c[1] = pos[1] /\ c[2] = pos[2])
    /\ ~Has(g, c, WUMPUS)
    /\ ~Has(g, c, PIT)

\* variant: the gold is always placed by the loop, never at the preferred cell
GoldCells_AlwaysSampled(g, pos) == {c \in GoldDraws : GoldAccepted(g, pos, c)}

\* the cells (gx, gy) can hold when GOLD is appended
GoldCells(g, pos) ==
    IF PreferredUnsafe(g, pos)
    THEN {c \in GoldDraws : GoldAccepted(g, pos, c)}
    ELSE {PreferredGold}

\* the grid before pits are placed, for the accepted Wumpus draw w
GridWithWumpus(w) == PlaceWumpus(GridAppend(EmptyGrid, StartPos, PLAYER), w)

\* the session reset_game leaves for the accepted draws w, pits, gold
NewSession(w, pits, gold) ==
    [grid |-> GridAppend(PlacePits(GridWithWumpus(w), pits), gold, GOLD),
     player_pos |-> StartPos,
     has_gold |-> FALSE,
     game_over |-> FALSE,
     win |-> FALSE,
     message |-> MsgInitial,
     visited |-> InitialVisited,
     stats |-> InitialStats,
     played |-> <<>>]

\* the sessions reset_game can produce, over all draws its loops accept
NewSessions ==
    UNION {
      UNION {
        { NewSession(w, pits, gold) :
            gold \in GoldCells(PlacePits(GridWithWumpus(w), pits), StartPos) }
        : pits \in {ps \in UNION {[1 .. pit_count -> PitDraws] : pit_count \in 1 .. 3} :
                      PitsAccepted(GridWithWumpus(w), StartPos, ps)} }
      : w \in {x \in WumpusDraws : WumpusAccepted(StartPos, x)} }

\* Ongoing, Won or Lost, as draw_game_over reads game_over and win
Status == IF ~game_over THEN "Ongoing" ELSE IF win THEN "Won" ELSE "Lost"

SetSession(s) ==
    /\ grid' = s.grid
    /\ player_pos' = s.player_pos
    /\ has_gold' = s.has_gold
    /\ game_over' = s.game_over
    /\ win' = s.win
    /\ message' = s.message
    /\ visited' = s.visited
    /\ stats' = s.stats
    /\ played' = s.played

\* variant: game_over and win are left as they were
reset_game_KeepsGameOver ==
    /\ \E s \in NewSessions :
          SetSession([s EXCEPT !.game_over = game_over, !.win = win])
    /\ call' = <<"reset_game">>

\* variant: the grid is not emptied, the new tags are appended to the old ones
reset_game_GridNotCleared ==
    /\ \E s \in NewSessions :
          SetSession([s EXCEPT !.grid =
              [c \in Cells |-> s.grid[c] (+) (grid[c] (-) SetToBag({PLAYER}))]])
    /\ call' = <<"reset_game">>

\* variant: has_gold is left as it was
reset_game_KeepsHasGold ==
    /\ \E s \in NewSessions : SetSession([s EXCEPT !.has_gold = has_gold])
    /\ call' = <<"reset_game">>

reset_game ==
    /\ \E s \in NewSessions : SetSession(s)
    /\ call' = <<"reset_game">>

\* reset_game is not running
GenDone == [pc |-> "done", pits_left |-> 0]

\* WumpusWorld.__init__ ends with self.reset_game()
Init ==
    /\ \E s \in NewSessions :
          /\ grid = s.grid
          /\ player_pos = s.player_pos
          /\ has_gold = s.has_gold
          /\ game_over = s.game_over
          /\ win = s.win
          /\ message = s.message
          /\ visited = s.visited
          /\ stats = s.stats
          /\ played = s.played
    /\ call = <<"__init__">>
    /\ event = "none"
    /\ gen = GenDone

(* ---------------------------- check_events ----------------------------- *)

\* variant: the GOLD tag stays in the cell
GoldEvent_KeepsTag(s) ==
    IF Has(s.grid, s.player_pos, GOLD)
    THEN [s EXCEPT !.has_gold = TRUE,
                   !.message = MsgFoundGold,
                   !.played = Append(@, "gold")]
    ELSE s

\* variant: the whole cell is emptied and the player put back, not only GOLD removed
GoldEvent_ClearsCell(s) ==
    IF Has(s.grid, s.player_pos, GOLD)
    THEN [s EXCEPT !.grid = [@ EXCEPT ![s.player_pos] = SetToBag({PLAYER})],
                   !.has_gold = TRUE,
                   !.message = MsgFoundGold,
                   !.played = Append(@, "gold")]
    ELSE s

\* if Element.GOLD in current_cell: remove it, has_gold, message, sound
GoldEvent(s) ==
    IF Has(s.grid, s.player_pos, GOLD)
    THEN [s EXCEPT !.grid = GridRemove(@, s.player_pos, GOLD),
                   !.has_gold = TRUE,
                   !.message = MsgFoundGold,
                   !.played = Append(@, "gold")]
    ELSE s

\* variant: the pit is harmless to a player who carries the gold
PitEvent_UnlessGold(s) ==
    IF Has(s.grid, s.player_pos, PIT) /\ ~s.has_gold
    THEN [s EXCEPT !.game_over = TRUE,
                   !.message = MsgPit,
                   !.played = Append(@, "pit")]
    ELSE s

\* variant: the pit message is set but the game goes on
PitEvent_MessageOnly(s) ==
    IF Has(s.grid, s.player_pos, PIT)
    THEN [s EXCEPT !.message = MsgPit,
                   !.played = Append(@, "pit")]
    ELSE s

\* if Element.PIT in current_cell: game over
PitEvent(s) ==
    IF Has(s.grid, s.player_pos, PIT)
    THEN [s EXCEPT !.game_over = TRUE,
                   !.message = MsgPit,
                   !.played = Append(@, "pit")]
    ELSE s

\* variant: the message is set but the game goes on
WumpusEvent_MessageOnly(s) ==
    IF Has(s.grid, s.player_pos, WUMPUS)
    THEN [s EXCEPT !.message = MsgWumpus,
                   !.played = Append(@, "wumpus")]
    ELSE s

\* if Element.WUMPUS in current_cell: game over
WumpusEvent(s) ==
    IF Has(s.grid, s.player_pos, WUMPUS)
    THEN [s EXCEPT !.game_over = TRUE,
                   !.message = MsgWumpus,
                   !.played = Append(@, "wumpus")]
    ELSE s

\* variant: arriving at the start cell wins, with or without the gold
WinEvent_IgnoresGold(s) ==
    IF s.player_pos = <<GRID_SIZE - 1, 0>>
    THEN [s EXCEPT !.game_over = TRUE,
                   !.win = TRUE,
                   !.message = MsgWon,
                   !.played = Append(@, "win")]
    ELSE s

\* variant: carrying the gold wins on any cell
WinEvent_IgnoresPosition(s) ==
    IF s.has_gold
    THEN [s EXCEPT !.game_over = TRUE,
                   !.win = TRUE,
                   !.message = MsgWon,
                   !.played = Append(@, "win")]
    ELSE s

\* if self.has_gold and self.player_pos == [GRID_SIZE-1, 0]: game over, win
WinEvent(s) ==
    IF s.has_gold /\ s.player_pos = <<GRID_SIZE - 1, 0>>
    THEN [s EXCEPT !.game_over = TRUE,
                   !.win = TRUE,
                   !.message = MsgWon,
                   !.played = Append(@, "win")]
    ELSE s

\* variant: the two messages chosen by has_gold are swapped
PerceptMessage_SwapsGold(breeze, stench, hasGold) ==
    IF breeze /\ stench THEN MsgBoth
    ELSE IF breeze THEN MsgBreeze
    ELSE IF stench THEN MsgStench
    ELSE IF hasGold THEN MsgFindGold
    ELSE MsgReturn

\* " & ".join(percepts), or the message chosen by has_gold when percepts is empty
PerceptMessage(breeze, stench, hasGold) ==
    IF breeze /\ stench THEN MsgBoth
    ELSE IF breeze THEN MsgBreeze
    ELSE IF stench THEN MsgStench
    ELSE IF ~hasGold THEN MsgFindGold
    ELSE MsgReturn

\* variant: the counters count the BREEZE and STENCH tags of the cell
PerceptUpdate_CountsTags(s) ==
    IF ~s.game_over
    THEN LET breeze == Has(s.grid, s.player_pos, BREEZE)
             stench == Has(s.grid, s.player_pos, STENCH)
         IN [s EXCEPT !.stats.pits_nearby = CopiesIn(BREEZE, s.grid[s.player_pos]),
                      !.stats.wumpus_nearby = CopiesIn(STENCH, s.grid[s.player_pos]),
                      !.message = PerceptMessage(breeze, stench, s.has_gold),
                      !.played = @ \o (IF breeze THEN <<"breeze">> ELSE <<>>)
                                   \o (IF stench THEN <<"stench">> ELSE <<>>)]
    ELSE s

\* variant: without percepts the message is left as the events set it
PerceptUpdate_KeepsMessage(s) ==
    IF ~s.game_over
    THEN LET breeze == Has(s.grid, s.player_pos, BREEZE)
             stench == Has(s.grid, s.player_pos, STENCH)
         IN [s EXCEPT !.stats.pits_nearby = IF breeze THEN 0 + 1 ELSE 0,
                      !.stats.wumpus_nearby = IF stench THEN 0 + 1 ELSE 0,
                      !.message = IF breeze \/ stench
                                  THEN PerceptMessage(breeze, stench, s.has_gold)
                                  ELSE @,
                      !.played = @ \o (IF breeze THEN <<"breeze">> ELSE <<>>)
                                   \o (IF stench THEN <<"stench">> ELSE <<>>)]
    ELSE s

\* if not self.game_over: reset the percept counters, count, set the message
PerceptUpdate(s) ==
    IF ~s.game_over
    THEN LET breeze == Has(s.grid, s.player_pos, BREEZE)
             stench == Has(s.grid, s.player_pos, STENCH)
         IN [s EXCEPT !.stats.pits_nearby = IF breeze THEN 0 + 1 ELSE 0,
                      !.stats.wumpus_nearby = IF stench THEN 0 + 1 ELSE 0,
                      !.message = PerceptMessage(breeze, stench, s.has_gold),
                      !.played = @ \o (IF breeze THEN <<"breeze">> ELSE <<>>)
                                   \o (IF stench THEN <<"stench">> ELSE <<>>)]
    ELSE s

check_events(s) == PerceptUpdate(WinEvent(WumpusEvent(PitEvent(GoldEvent(s)))))

(* ----------------------------- move_player ----------------------------- *)

\* if 0 <= new_x < GRID_SIZE and 0 <= new_y < GRID_SIZE
MoveValid(new_x, new_y) == InGrid(new_x, new_y)

\* variant: cells_visited is incremented on every move
CommitMove_AlwaysCounts(s, new_x, new_y) ==
    [s EXCEPT !.played = Append(@, "move"),
              !.stats.moves = @ + 1,
              !.grid = GridAppend(GridRemove(@, s.player_pos, PLAYER),
                                  <<new_x, new_y>>, PLAYER),
              !.player_pos = <<new_x, new_y>>,
              !.visited[<<new_x, new_y>>] = TRUE,
              !.stats.cells_visited = @ + 1]

\* variant: the PLAYER tag is not removed from the cell the player leaves
CommitMove_KeepsOldPlayer(s, new_x, new_y) ==
    [s EXCEPT !.played = Append(@, "move"),
              !.stats.moves = @ + 1,
              !.grid = GridAppend(@, <<new_x, new_y>>, PLAYER),
              !.player_pos = <<new_x, new_y>>,
              !.visited[<<new_x, new_y>>] = TRUE,
              !.stats.cells_visited = IF s.visited[<<new_x, new_y>>] THEN @ ELSE @ + 1]

\* variant: the visited flag of the new cell is toggled
CommitMove_TogglesVisited(s, new_x, new_y) ==
    [s EXCEPT !.played = Append(@, "move"),
              !.stats.moves = @ + 1,
              !.grid = GridAppend(GridRemove(@, s.player_pos, PLAYER),
                                  <<new_x, new_y>>, PLAYER),
              !.player_pos = <<new_x, new_y>>,
              !.visited[<<new_x, new_y>>] = ~@,
              !.stats.cells_visited = IF s.visited[<<new_x, new_y>>] THEN @ ELSE @ + 1]

\* the body of the valid-move branch, up to the call of check_events
CommitMove(s, new_x, new_y) ==
    [s EXCEPT !.played = Append(@, "move"),
              !.stats.moves = @ + 1,
              !.grid = GridAppend(GridRemove(@, s.player_pos, PLAYER),
                                  <<new_x, new_y>>, PLAYER),
              !.player_pos = <<new_x, new_y>>,
              !.visited[<<new_x, new_y>>] = TRUE,
              !.stats.cells_visited = IF s.visited[<<new_x, new_y>>] THEN @ ELSE @ + 1]

\* variant: the early return tests win instead of game_over
MovePlayerResult_ChecksWin(s, dx, dy) ==
    IF s.win THEN s
    ELSE LET new_x == s.player_pos[1] + dx
             new_y == s.player_pos[2] + dy
         IN IF MoveValid(new_x, new_y)
            THEN check_events(CommitMove(s, new_x, new_y))
            ELSE s

\* variant: the move is counted before it is found to leave the grid
MovePlayerResult_CountsRejected(s, dx, dy) ==
    IF s.game_over THEN s
    ELSE LET new_x == s.player_pos[1] + dx
             new_y == s.player_pos[2] + dy
         IN IF MoveValid(new_x, new_y)
            THEN check_events(CommitMove(s, new_x, new_y))
            ELSE [s EXCEPT !.stats.moves = @ + 1]

\* variant: the position is assigned before the bounds test
MovePlayerResult_MovesBeforeCheck(s, dx, dy) ==
    IF s.game_over THEN s
    ELSE LET new_x == s.player_pos[1] + dx
             new_y == s.player_pos[2] + dy
         IN IF MoveValid(new_x, new_y)
            THEN check_events(CommitMove(s, new_x, new_y))
            ELSE [s EXCEPT !.player_pos = <<new_x, new_y>>]

\* the session move_player(dx, dy) leaves when called on session s
MovePlayerResult(s, dx, dy) ==
    IF s.game_over THEN s
    ELSE LET new_x == s.player_pos[1] + dx
             new_y == s.player_pos[2] + dy
         IN IF MoveValid(new_x, new_y)
            THEN check_events(CommitMove(s, new_x, new_y))
            ELSE s

\* a call of game.move_player(dx, dy)
move_player(dx, dy) ==
    /\ SetSession(MovePlayerResult([Session EXCEPT !.played = <<>>], dx, dy))
    /\ call' = <<"move_player", dx, dy>>

(* -------------------------------- main --------------------------------- *)

Keys == {"K_r", "K_UP", "K_DOWN", "K_LEFT", "K_RIGHT"}

\* the arguments of the move_player call each arrow key makes
KeyDelta(key) ==
    CASE key = "K_UP" -> K_UP
      [] key = "K_DOWN" -> K_DOWN
      [] key = "K_LEFT" -> K_LEFT
      [] key = "K_RIGHT" -> K_RIGHT

\* the KEYDOWN branch of the event loop: K_r resets; an arrow key calls
\* move_player only if not game.game_over
KeyDown(key) ==
    IF key = "K_r"
    THEN reset_game /\ event' = key /\ UNCHANGED gen
    ELSE IF ~game_over
         THEN move_player(KeyDelta(key)[1], KeyDelta(key)[2]) /\ event' = key
                /\ UNCHANGED gen
         ELSE UNCHANGED vars

\* reset_game and move_player called on the game object by another caller
\* than the event loop
DirectReset == reset_game /\ event' = "none" /\ UNCHANGED gen

DirectMove(dx, dy) == move_player(dx, dy) /\ event' = "none" /\ UNCHANGED gen

\* the model stops committing moves once MaxMoves were made since the reset
WithinBound == game_over \/ stats.moves < MaxMoves

Next ==
    \/ DirectReset
    \/ \E d \in Directions : WithinBound /\ DirectMove(d[1], d[2])
    \/ \E key \in Keys : WithinBound /\ KeyDown(key)

Spec == Init /\ [][Next]_vars

(* ----------------------- reset_game, step by step ---------------------- *)

\* The loops of reset_game, one random draw a step.  A draw is any cell of
\* the grid; a draw the loop rejects leaves the state as it is and the loop
\* draws again.

\* the session when reset_game reaches its first loop: every field reset,
\* the grid empty but for the player
ResetStart ==
    [grid |-> GridAppend(EmptyGrid, StartPos, PLAYER),
     player_pos |-> StartPos,
     has_gold |-> FALSE,
     game_over |-> FALSE,
     win |-> FALSE,
     message |-> MsgInitial,
     visited |-> InitialVisited,
     stats |-> InitialStats,
     played |-> <<>>]

GenInit ==
    /\ grid = ResetStart.grid
    /\ player_pos = ResetStart.player_pos
    /\ has_gold = ResetStart.has_gold
    /\ game_over = ResetStart.game_over
    /\ win = ResetStart.win
    /\ message = ResetStart.message
    /\ visited = ResetStart.visited
    /\ stats = ResetStart.stats
    /\ played = ResetStart.played
    /\ call = <<"__init__">>
    /\ event = "none"
    /\ gen = [pc |-> "wumpus", pits_left |-> 0]

\* the fields the loops of reset_game do not write
GenFrame ==
    UNCHANGED <<player_pos, has_gold, game_over, win, message, visited, stats,
                played, call, event>>

\* one pass of the Wumpus loop with the draw (wx, wy) = c
DrawWumpus(c) ==
    /\ gen.pc = "wumpus"
    /\ IF WumpusAccepted(player_pos, c)
       THEN /\ grid' = PlaceWumpus(grid, c)
            /\ gen' = [gen EXCEPT !.pc = "pit_count"]
       ELSE UNCHANGED <<grid, gen>>
    /\ GenFrame

\* pit_count = random.randint(1, 3)
DrawPitCount(n) ==
    /\ gen.pc = "pit_count"
    /\ gen' = [pc |-> "pits", pits_left |-> n]
    /\ UNCHANGED grid
    /\ GenFrame

\* one pass of the pit loop with the draw (px, py) = c
DrawPit(c) ==
    /\ gen.pc = "pits"
    /\ IF PitAccepted(grid, player_pos, c)
       THEN /\ grid' = PlacePit(grid, c)
            /\ gen' = [pc |-> IF gen.pits_left = 1 THEN "gold" ELSE "pits",
                       pits_left |-> gen.pits_left - 1]
       ELSE UNCHANGED <<grid, gen>>
    /\ GenFrame

\* the test of the preferred cell: gold is placed there, or the loop entered
CheckPreferred ==
    /\ gen.pc = "gold"
    /\ IF PreferredUnsafe(grid, player_pos)
       THEN /\ gen' = [gen EXCEPT !.pc = "gold_loop"]
            /\ UNCHANGED grid
       ELSE /\ grid' = GridAppend(grid, PreferredGold, GOLD)
            /\ gen' = GenDone
    /\ GenFrame

\* variant: the gold loop has no break, an accepted draw is thrown away
DrawGold_NoBreak(c) ==
    /\ gen.pc = "gold_loop"
    /\ UNCHANGED <<grid, gen>>
    /\ GenFrame

\* one pass of the gold loop with the draw (gx, gy) = c
DrawGold(c) ==
    /\ gen.pc = "gold_loop"
    /\ IF GoldAccepted(grid, player_pos, c)
       THEN /\ grid' = GridAppend(grid, c, GOLD)
            /\ gen' = GenDone
       ELSE UNCHANGED <<grid, gen>>
    /\ GenFrame

\* the steps of one run of reset_game
GenStep ==
    \/ \E c \in Cells : DrawWumpus(c)
    \/ \E n \in 1 .. 3 : DrawPitCount(n)
    \/ \E c \in Cells : DrawPit(c)
    \/ CheckPreferred
    \/ \E c \in Cells : DrawGold(c)

\* reset_game is called again and reaches its first loop
GenRestart ==
    /\ gen.pc = "done"
    /\ grid' = ResetStart.grid
    /\ gen' = [pc |-> "wumpus", pits_left |-> 0]
    /\ call' = <<"reset_game">>
    /\ UNCHANGED <<player_pos, has_gold, game_over, win, message, visited, stats,
                   played, event>>

GenNext == GenStep \/ GenRestart

\* random.randint is fair: a loop that has a draw it accepts does not go on
\* drawing cells it rejects for ever
GenSpec == GenInit /\ [][GenNext]_vars /\ WF_vars(GenStep)

(* ------------------------- properties: helpers ------------------------- *)

\* the step is made by a call of move_player
MoveCalled == call'[1] = "move_player"

\* the step is made by a call of reset_game
ResetCalled == call'[1] = "reset_game"

\* the cell the step's move_player call computes from the current position
Candidate == <<player_pos[1] + call'[2], player_pos[2] + call'[3]>>

\* the step is a move_player call made while Ongoing whose candidate is a cell
CommittedMove == MoveCalled /\ ~game_over /\ Candidate \in Cells

\* the step leaves every field of the session as it was
SessionUnchanged ==
    /\ grid' = grid
    /\ player_pos' = player_pos
    /\ has_gold' = has_gold
    /\ game_over' = game_over
    /\ win' = win
    /\ message' = message
    /\ visited' = visited
    /\ stats' = stats

\* the number of copies of tag in the cell <<x, y>>, 0 if that is no cell
CopiesAt(g, x, y, tag) ==
    IF <<x, y>> \in Cells THEN CopiesIn(tag, g[<<x, y>>]) ELSE 0

\* the number of copies of tag in the four orthogonal neighbours of cell c
NeighbourCopies(g, c, tag) ==
    CopiesAt(g, c[1] - 1, c[2], tag) + CopiesAt(g, c[1] + 1, c[2], tag)
      + CopiesAt(g, c[1], c[2] - 1, tag) + CopiesAt(g, c[1], c[2] + 1, tag)

\* the number of copies of tag in the first n cells, counted row by row
RECURSIVE TagCount(_, _, _)
TagCount(g, tag, n) ==
    IF n = 0 THEN 0
    ELSE CopiesAt(g, (n - 1) \div GRID_SIZE, (n - 1) % GRID_SIZE, tag)
           + TagCount(g, tag, n - 1)

\* the number of copies of tag on the whole grid
TagTotal(g, tag) == TagCount(g, tag, GRID_SIZE * GRID_SIZE)

(* ------------------------------- claims -------------------------------- *)

\* C1: once the status is Won or Lost, a call of move_player, in any
\* direction, leaves position, move count, visited set, visited count,
\* has_gold, percept counters, message, status and every cell's tags as
\* they were.
C1_TerminalMoveChangesNothing ==
    [][(game_over /\ MoveCalled) => SessionUnchanged]_vars

\* a move_player call was made while the game was over (a committed move
\* plays the move sound, this call played nothing)
C1_Witness == game_over /\ call[1] = "move_player" /\ played = <<>>

\* C2: while the status is Ongoing, a call of move_player whose candidate
\* cell lies outside the grid leaves the whole session as it was.
C2_OutOfGridMoveIsNoOp ==
    [][(MoveCalled /\ ~game_over /\ Candidate \notin Cells) => SessionUnchanged]_vars

\* a move_player call was rejected at the top edge, in the corner (0, 0)
C2_Witness ==
    /\ ~game_over
    /\ player_pos = <<0, 0>>
    /\ call = <<"move_player", -1, 0>>
    /\ played = <<>>

\* C3: the status changes only from Ongoing to Won or Lost, by a call of
\* move_player, and from Won or Lost to Ongoing, by a call of reset_game;
\* every call of reset_game leaves the status Ongoing.
C3_StatusTransitions ==
    [][/\ (Status' # Status) =>
            \/ (Status = "Ongoing" /\ Status' \in {"Won", "Lost"} /\ MoveCalled)
            \/ (Status \in {"Won", "Lost"} /\ Status' = "Ongoing" /\ ResetCalled)
       /\ ResetCalled => Status' = "Ongoing"]_vars

\* a move has just ended the game with a loss
C3_Witness == Status = "Lost" /\ call[1] = "move_player" /\ played # <<>>

\* C4: a committed move ends with status Won exactly when, after it,
\* has_gold is true and the position is the start cell; the message is then
\* the victory message.
C4_WonIffGoldAtStart ==
    [][CommittedMove =>
          /\ (Status' = "Won") <=> (has_gold' /\ player_pos' = StartPos)
          /\ (Status' = "Won") => (message' = MsgWon)]_vars

\* the player came back to the start cell with the gold
C4_Witness ==
    /\ Status = "Won"
    /\ message = MsgWon
    /\ player_pos = StartPos
    /\ has_gold
    /\ played # <<>>

\* C5: a committed move onto a cell that holds Pit sets the status to Lost
\* with the pit message, whatever has_gold is; no later call of move_player
\* changes the position or the message.
C5_PitLoses ==
    [][/\ (CommittedMove /\ Has(grid, Candidate, PIT)) =>
              (Status' = "Lost" /\ message' = MsgPit)
       /\ (Status = "Lost" /\ message = MsgPit /\ MoveCalled) =>
              (player_pos' = player_pos /\ message' = message)]_vars

\* the player fell into a pit while carrying the gold, and move_player was
\* called again after that
C5_Witness ==
    /\ Status = "Lost"
    /\ message = MsgPit
    /\ has_gold
    /\ Has(grid, player_pos, PIT)
    /\ call[1] = "move_player"
    /\ played = <<>>

\* C6: a committed move onto the cell that holds Wumpus sets the status to
\* Lost with the Wumpus message, whatever has_gold is.
C6_WumpusLoses ==
    [][(CommittedMove /\ Has(grid, Candidate, WUMPUS)) =>
          (Status' = "Lost" /\ message' = MsgWumpus)]_vars

\* the player walked onto the Wumpus while carrying the gold
C6_Witness ==
    /\ Status = "Lost"
    /\ message = MsgWumpus
    /\ has_gold
    /\ Has(grid, player_pos, WUMPUS)
    /\ played # <<>>

\* C7: a committed move onto the cell that holds Gold sets has_gold and
\* leaves no Gold tag in that cell; a committed move made when has_gold is
\* already true finds no Gold in the cell it enters and leaves has_gold and
\* the Gold tags of every cell as they were.
C7_GoldPickedUpOnce ==
    [][/\ (CommittedMove /\ Has(grid, Candidate, GOLD)) =>
              (has_gold' /\ CopiesIn(GOLD, grid'[Candidate]) = 0)
       /\ (CommittedMove /\ has_gold) =>
              /\ ~Has(grid, Candidate, GOLD)
              /\ has_gold'
              /\ \A c \in Cells : CopiesIn(GOLD, grid'[c]) = CopiesIn(GOLD, grid[c])]_vars

\* the third move of a game has brought the player back to (3, 1), the cell
\* of its first move, and it carries the gold; the only other cell entered
\* is (3, 2) or (2, 1), where reset_game puts no gold under GoldDraws, so
\* the gold was picked up at (3, 1) and this move entered (3, 1) again
C7_Witness ==
    /\ has_gold
    /\ ~game_over
    /\ player_pos = <<3, 1>>
    /\ stats.moves = 3
    /\ stats.cells_visited = 3
    /\ call[1] = "move_player"
    /\ played # <<>>
    /\ \A i \in DOMAIN played : played[i] # "gold"

\* C8: every move_player call made while Ongoing whose candidate is a cell
\* sets the position to the current position plus the delta of the call,
\* the arrow keys giving Up (-1,0), Down (1,0), Left (0,-1), Right (0,1);
\* it adds 1 to the move count, marks the new cell visited, and adds 1 to
\* the visited count if and only if the new cell was not visited before.
C8_CommittedMoveEffects ==
    [][CommittedMove =>
          /\ player_pos' = Candidate
          /\ stats'.moves = stats.moves + 1
          /\ visited'[Candidate]
          /\ stats'.cells_visited =
                stats.cells_visited + (IF visited[Candidate] THEN 0 ELSE 1)
          /\ event' = "K_UP" => (call'[2] = -1 /\ call'[3] = 0)
          /\ event' = "K_DOWN" => (call'[2] = 1 /\ call'[3] = 0)
          /\ event' = "K_LEFT" => (call'[2] = 0 /\ call'[3] = -1)
          /\ event' = "K_RIGHT" => (call'[2] = 0 /\ call'[3] = 1)]_vars

\* the second move of a game, made with the Left key, has brought the
\* player back onto the start cell, which was visited before
C8_Witness ==
    /\ player_pos = StartPos
    /\ stats.moves = 2
    /\ stats.cells_visited = 2
    /\ event = "K_LEFT"
    /\ played # <<>>

\* the board holds what one run of the generator puts on an empty grid and
\* nothing else: Player once, on the start cell; one Wumpus tag, one Gold
\* tag and one to three Pit tags; in every cell as many Stench tags as it
\* has neighbours with the Wumpus and as many Breeze tags as its neighbours
\* hold Pit tags
FreshBoard ==
    /\ \A c \in Cells : CopiesIn(PLAYER, grid[c]) = (IF c = StartPos THEN 1 ELSE 0)
    /\ TagTotal(grid, WUMPUS) = 1
    /\ TagTotal(grid, GOLD) = 1
    /\ TagTotal(grid, PIT) \in 1 .. 3
    /\ \A c \in Cells :
          /\ CopiesIn(STENCH, grid[c]) = NeighbourCopies(grid, c, WUMPUS)
          /\ CopiesIn(BREEZE, grid[c]) = NeighbourCopies(grid, c, PIT)

\* the session fields as reset_game sets them
InitialSession ==
    /\ player_pos = <<GRID_SIZE - 1, 0>>
    /\ has_gold = FALSE
    /\ Status = "Ongoing"
    /\ stats.moves = 0
    /\ stats.cells_visited = 1
    /\ {c \in Cells : visited[c]} = {<<GRID_SIZE - 1, 0>>}
    /\ stats.pits_nearby = 0
    /\ stats.wumpus_nearby = 0
    /\ message = MsgInitial

\* C9: a call of reset_game, from any state, leaves the initial session:
\* position (N-1, 0), has_gold false, status Ongoing, no moves, visited
\* count 1, only the start cell visited, both percept counters 0, the
\* initial message, and a fresh board that keeps nothing of the previous
\* one.  (Every state whose last call is reset_game is the state that call
\* left, whatever state it was made in.)
C9_ResetGivesInitialSession ==
    (call[1] = "reset_game") => (InitialSession /\ FreshBoard)

\* reset_game was the last call
C9_Witness == call = <<"reset_game">> /\ event = "K_r"

\* C10: in every reachable state exactly one cell holds the Wumpus tag, and
\* that cell is not the start cell.
C10_OneWumpusOffStart ==
    /\ Cardinality({c \in Cells : Has(grid, c, WUMPUS)}) = 1
    /\ ~Has(grid, StartPos, WUMPUS)

\* the player has walked onto the Wumpus, which is still there
C10_Witness ==
    /\ game_over
    /\ Has(grid, player_pos, WUMPUS)
    /\ stats.moves > 0

\* cells a and b are orthogonal neighbours
Adjacent(a, b) ==
    \/ (a[1] = b[1] /\ (a[2] = b[2] + 1 \/ a[2] = b[2] - 1))
    \/ (a[2] = b[2] /\ (a[1] = b[1] + 1 \/ a[1] = b[1] - 1))

\* the cells that hold tag
CellsWith(tag) == {c \in Cells : Has(grid, c, tag)}

\* no move was committed on the board since reset_game generated it
JustGenerated == stats.moves = 0

\* C11: on every generated board the number of cells holding Pit is between
\* 1 and 3, and no Pit is on the start cell or on the Wumpus cell.
C11_PitCells ==
    /\ Cardinality(CellsWith(PIT)) \in 1 .. 3
    /\ <<GRID_SIZE - 1, 0>> \notin CellsWith(PIT)
    /\ CellsWith(PIT) \cap CellsWith(WUMPUS) = {}

\* a generated board with three Pit cells, one of them next to the Wumpus
C11_Witness ==
    /\ JustGenerated
    /\ Cardinality(CellsWith(PIT)) = 3
    /\ \E p \in CellsWith(PIT) : \E w \in CellsWith(WUMPUS) : Adjacent(p, w)

\* C12: on every generated board exactly one cell holds Gold, and that cell
\* is not the start cell and holds neither Wumpus nor Pit; the start cell
\* holds none of Wumpus, Pit, Gold.
C12_GoldCell ==
    JustGenerated =>
        /\ Cardinality(CellsWith(GOLD)) = 1
        /\ \A c \in CellsWith(GOLD) :
              /\ c # <<GRID_SIZE - 1, 0>>
              /\ CopiesIn(GOLD, grid[c]) = 1
              /\ ~Has(grid, c, WUMPUS)
              /\ ~Has(grid, c, PIT)
        /\ \A tag \in {WUMPUS, PIT, GOLD} : ~Has(grid, <<GRID_SIZE - 1, 0>>, tag)

\* a generated board whose gold was placed by the loop, the preferred cell
\* holding a Pit
C12_Witness ==
    /\ JustGenerated
    /\ Has(grid, <<0, GRID_SIZE - 1>>, PIT)
    /\ Has(grid, <<3, 1>>, GOLD)
    /\ Has(grid, <<1, 0>>, PIT)

\* C13: a cell holds Stench if and only if it is an orthogonal neighbour,
\* inside the grid, of the Wumpus cell, and Breeze if and only if it is an
\* orthogonal neighbour of at least one Pit cell; nothing wraps to the
\* opposite edge.
C13_Percepts ==
    \A c \in Cells :
        /\ Has(grid, c, STENCH) <=> \E w \in CellsWith(WUMPUS) : Adjacent(c, w)
        /\ Has(grid, c, BREEZE) <=> \E p \in CellsWith(PIT) : Adjacent(c, p)

\* the Wumpus is in the corner (0, 3) and a Pit on the left edge, at (1, 0):
\* each has neighbour offsets that leave the grid
C13_Witness ==
    /\ Has(grid, <<0, 3>>, WUMPUS)
    /\ Has(grid, <<1, 0>>, PIT)
    /\ ~Has(grid, <<0, 0>>, STENCH)
    /\ ~Has(grid, <<1, 3>>, BREEZE)

\* C14: on every generated board the Gold is at the top-right cell (0, N-1)
\* whenever that cell holds neither Wumpus nor Pit; only when it holds
\* Wumpus or Pit is the Gold in another cell, one that is not the start cell
\* and holds neither Wumpus nor Pit.
C14_GoldPlacement ==
    JustGenerated =>
        IF ~Has(grid, <<0, GRID_SIZE - 1>>, WUMPUS) /\ ~Has(grid, <<0, GRID_SIZE - 1>>, PIT)
        THEN CellsWith(GOLD) = {<<0, GRID_SIZE - 1>>}
        ELSE /\ CellsWith(GOLD) # {}
             /\ \A c \in CellsWith(GOLD) :
                   /\ c # <<0, GRID_SIZE - 1>>
                   /\ c # <<GRID_SIZE - 1, 0>>
                   /\ ~Has(grid, c, WUMPUS)
                   /\ ~Has(grid, c, PIT)

\* a generated board with the Gold at the preferred cell and Pits elsewhere
C14_Witness ==
    /\ JustGenerated
    /\ Has(grid, <<0, GRID_SIZE - 1>>, GOLD)
    /\ Cardinality(CellsWith(PIT)) >= 2

\* the loop reset_game is in has a cell it accepts
LoopCanExit ==
    /\ gen.pc = "wumpus" =>
          \E c \in Cells : ~(c[1] = player_pos[1] /\ c[2] = player_pos[2])
    /\ gen.pc = "pits" =>
          \E c \in Cells : /\ ~(c[1] = player_pos[1] /\ c[2] = player_pos[2])
                           /\ ~Has(grid, c, WUMPUS)
    /\ gen.pc = "gold_loop" =>
          \E c \in Cells : /\ ~(c[1] = player_pos[1] /\ c[2] = player_pos[2])
                           /\ ~Has(grid, c, WUMPUS)
                           /\ ~Has(grid, c, PIT)

\* C15: board generation terminates: in every state of the Wumpus loop, the
\* pit loop and the gold loop at least one cell of the 4 x 4 grid is one the
\* loop accepts, and under fair random choice every run of reset_game
\* reaches its end.
C15_GenerationTerminates ==
    /\ []LoopCanExit
    /\ (gen.pc # "done") ~> (gen.pc = "done")

\* reset_game has ended a run in which the gold loop was entered: the
\* preferred cell holds a Pit, and three Pit cells and the Wumpus cell were
\* closed to the gold
C15_Witness ==
    /\ gen.pc = "done"
    /\ call = <<"reset_game">>
    /\ Has(grid, <<0, GRID_SIZE - 1>>, PIT)
    /\ Cardinality(CellsWith(PIT)) = 3
    /\ Cardinality(CellsWith(GOLD)) = 1

\* C16: in every reachable state the Player tag is in exactly one cell,
\* exactly once, and that cell is the current position.
C16_OnePlayerTag ==
    \A c \in Cells : CopiesIn(PLAYER, grid[c]) = (IF c = player_pos THEN 1 ELSE 0)

\* the player has moved away from the start cell and come back to a cell it
\* had left
C16_Witness ==
    /\ player_pos # <<GRID_SIZE - 1, 0>>
    /\ stats.moves > stats.cells_visited
    /\ played # <<>>

C18_MoveFrame ==
    [][~ResetCalled =>
          \A c \in Cells :
             /\ \A tag \in {WUMPUS, PIT, BREEZE, STENCH} :
                   CopiesIn(tag, grid'[c]) = CopiesIn(tag, grid[c])
             /\ c \notin {player_pos, player_pos'} =>
                   CopiesIn(PLAYER, grid'[c]) = CopiesIn(PLAYER, grid[c])
             /\ c # player_pos' =>
                   CopiesIn(GOLD, grid'[c]) = CopiesIn(GOLD, grid[c])
             /\ CopiesIn(GOLD, grid'[c]) <= CopiesIn(GOLD, grid[c])
             /\ \A tag \in DOMAIN grid'[c] : tag \in Element]_vars

\* the last move picked up the gold in a cell that holds Breeze or Stench
C18_Witness ==
    /\ Len(played) >= 2
    /\ played[2] = "gold"
    /\ Has(grid, player_pos, BREEZE) \/ Has(grid, player_pos, STENCH)

\* C19: after a committed move that leaves the status Ongoing, pits_nearby
\* is 1 if the new cell holds Breeze and 0 otherwise, and wumpus_nearby is 1
\* if it holds Stench and 0 otherwise; both counters are always 0 or 1, also
\* in a cell that holds several Breeze tags.
C19_PerceptCounters ==
    [][/\ (CommittedMove /\ ~game_over') =>
            /\ stats'.pits_nearby =
                  (IF Has(grid', player_pos', BREEZE) THEN 1 ELSE 0)
            /\ stats'.wumpus_nearby =
                  (IF Has(grid', player_pos', STENCH) THEN 1 ELSE 0)
       /\ stats'.pits_nearby \in {0, 1}
       /\ stats'.wumpus_nearby \in {0, 1}]_vars

\* the last move entered a cell with two Pit cells among its neighbours, and
\* the game goes on
C19_Witness ==
    /\ ~game_over
    /\ call[1] = "move_player"
    /\ played # <<>>
    /\ Cardinality({p \in CellsWith(PIT) : Adjacent(p, player_pos)}) >= 2
    /\ CopiesIn(BREEZE, grid[player_pos]) >= 2
    /\ stats.pits_nearby = 1

\* C20: after a committed move that leaves the status Ongoing, the message
\* is fixed by the tags of the new cell and has_gold: the breeze message,
\* the stench message, both joined by " & ", and with neither percept
\* "Find the gold!" without the gold and "Return to start with the gold!"
\* with it.
C20_PerceptMessage ==
    [][(CommittedMove /\ ~game_over') =>
          LET b == Has(grid', player_pos', BREEZE)
              t == Has(grid', player_pos', STENCH)
          IN /\ (b /\ ~t) => message' = "You feel a breeze"
             /\ (~b /\ t) => message' = "You smell a stench"
             /\ (b /\ t) => message' = "You feel a breeze & You smell a stench"
             /\ (~b /\ ~t /\ ~has_gold') => message' = "Find the gold!"
             /\ (~b /\ ~t /\ has_gold') => message' = "Return to start with the gold!"]_vars

\* the last move left the player in a cell that holds Breeze and Stench
C20_Witness ==
    /\ ~game_over
    /\ call[1] = "move_player"
    /\ played # <<>>
    /\ Has(grid, player_pos, BREEZE)
    /\ Has(grid, player_pos, STENCH)
    /\ message = "You feel a breeze & You smell a stench"

\* C21: the position is always a cell of the grid: in every reachable state
\* 0 <= row < GRID_SIZE and 0 <= col < GRID_SIZE.
C21_PositionInGrid ==
    /\ 0 <= player_pos[1] /\ player_pos[1] < GRID_SIZE
    /\ 0 <= player_pos[2] /\ player_pos[2] < GRID_SIZE

\* the player stands in the bottom row and a move_player call that would
\* have left the grid through the bottom edge has just returned
C21_Witness ==
    /\ player_pos[1] = GRID_SIZE - 1
    /\ call = <<"move_player", 1, 0>>
    /\ played = <<>>
    /\ ~game_over

\* every accepted pit draw appends one PIT tag, so the number of PIT tags on
\* the grid is the pit count that was drawn
PitCount == TagTotal(grid, PIT)

\* the board holds tags PIT tags on cells distinct Pit cells
PitsOn(tags, cells) == PitCount = tags /\ Cardinality(CellsWith(PIT)) = cells

\* C22: the generator can place two or three pit draws on the same cell: from
\* every reachable state a call of reset_game can produce a board with two
\* pit draws on one Pit cell, and one with three pit draws on one Pit cell;
\* on every board the number of distinct Pit cells is at least 1 and at most
\* the pit count drawn, which is between 1 and 3.
C22_PitsCanStack ==
    /\ ENABLED (DirectReset /\ PitsOn(2, 1)')
    /\ ENABLED (DirectReset /\ PitsOn(3, 1)')
    /\ PitCount \in 1 .. 3
    /\ Cardinality(CellsWith(PIT)) \in 1 .. PitCount

\* reset_game has just generated a board on which three pit draws fell on
\* one cell
C22_Witness == call[1] = "reset_game" /\ JustGenerated /\ PitsOn(3, 1)

\* the last call played the sound snd: each branch of check_events plays its
\* own sound, so the sounds tell which branches ran
Played(snd) == \E i \in 1 .. Len(played) : played[i] = snd

\* C23: in a committed move at most one of the pit, Wumpus and win branches
\* of check_events runs, and the gold branch never runs in the same move as
\* one of them; the status and message the move leaves are those of the
\* terminal branch that ran, and a move that picks up the gold leaves the
\* status Ongoing.
C23_OneTerminalEvent ==
    [][CommittedMove =>
          /\ ~(Played("pit")' /\ Played("wumpus")')
          /\ ~(Played("pit")' /\ Played("win")')
          /\ ~(Played("wumpus")' /\ Played("win")')
          /\ Played("gold")' =>
                ~(Played("pit")' \/ Played("wumpus")' \/ Played("win")')
          /\ Played("pit")' => (Status' = "Lost" /\ message' = MsgPit)
          /\ Played("wumpus")' => (Status' = "Lost" /\ message' = MsgWumpus)
          /\ Played("win")' => (Status' = "Won" /\ message' = MsgWon)
          /\ Played("gold")' => Status' = "Ongoing"]_vars

\* the win branch alone ended a move onto a start cell that holds Breeze or
\* Stench
C23_Witness ==
    /\ call[1] = "move_player"
    /\ played = <<"move", "win">>
    /\ (Has(grid, player_pos, BREEZE) \/ Has(grid, player_pos, STENCH))
    /\ message = MsgWon

\* C24: in every reachable state the status agrees with where the player
\* stands: Lost implies the current cell holds Pit or Wumpus; Won implies the
\* position is the start cell and has_gold; Ongoing implies the current cell
\* holds neither Pit nor Wumpus and not (has_gold and position = start); and
\* win is never true while game_over is false.
C24_StatusAgreesWithPosition ==
    /\ Status = "Lost" =>
          (Has(grid, player_pos, PIT) \/ Has(grid, player_pos, WUMPUS))
    /\ Status = "Won" => (player_pos = <<GRID_SIZE - 1, 0>> /\ has_gold)
    /\ Status = "Ongoing" =>
          /\ ~Has(grid, player_pos, PIT)
          /\ ~Has(grid, player_pos, WUMPUS)
          /\ ~(has_gold /\ player_pos = <<GRID_SIZE - 1, 0>>)
    /\ win => game_over

\* the player picked up the gold and then fell into a pit
C24_Witness ==
    /\ game_over /\ ~win /\ has_gold
    /\ Has(grid, player_pos, PIT)
    /\ player_pos # <<GRID_SIZE - 1, 0>>

\* the grid holds one GOLD tag while the gold is not carried, none once it is
GoldConserved == TagTotal(grid, GOLD) = (IF has_gold THEN 0 ELSE 1)

\* C25: gold is conserved: in every reachable state the grid holds exactly
\* one Gold tag when has_gold is false and no Gold tag when has_gold is true,
\* and has_gold never goes from true to false except by a call of reset_game.
C25_GoldConserved ==
    /\ []GoldConserved
    /\ [][(has_gold /\ ~has_gold') => ResetCalled]_vars

\* the gold is carried, the grid holds no Gold tag, and a move was committed
\* after the one that picked the gold up
C25_Witness ==
    /\ has_gold
    /\ TagTotal(grid, GOLD) = 0
    /\ call[1] = "move_player"
    /\ played # <<>>
    /\ ~Played("gold")

\* C26: in every reachable state cells_visited equals the number of cells
\* marked visited, the start cell and the current position are both marked
\* visited, and cells_visited <= moves + 1.
C26_VisitedCount ==
    /\ stats.cells_visited = Cardinality({c \in Cells : visited[c]})
    /\ visited[<<GRID_SIZE - 1, 0>>]
    /\ visited[player_pos]
    /\ stats.cells_visited <= stats.moves + 1

\* the player stepped off the start cell and back: two moves were made,
\* two cells are marked
C26_Witness ==
    /\ stats.moves = 2
    /\ stats.cells_visited = 2
    /\ player_pos = <<GRID_SIZE - 1, 0>>
    /\ call[1] = "move_player"

\* C27: in every reachable state with status Ongoing, including the state
\* right after reset_game, pits_nearby is 1 exactly when the player's current
\* cell holds Breeze and wumpus_nearby is 1 exactly when it holds Stench.
C27_CountersMatchCell ==
    Status = "Ongoing" =>
        /\ (stats.pits_nearby = 1) <=> Has(grid, player_pos, BREEZE)
        /\ (stats.wumpus_nearby = 1) <=> Has(grid, player_pos, STENCH)

\* C28: "You found the gold! Return to start." is never the message once
\* move_player has returned: it is the message in no reachable state, and
\* every committed move onto the cell that holds Gold leaves the status
\* Ongoing and the message the percept message of that cell, or "Return to
\* start with the gold!" when the cell holds neither Breeze nor Stench.
C28_FoundGoldMessageOverwritten ==
    /\ [](message # MsgFoundGold)
    /\ [][(CommittedMove /\ Has(grid, Candidate, GOLD)) =>
             /\ Status' = "Ongoing"
             /\ message' =
                  IF Has(grid, Candidate, BREEZE) /\ Has(grid, Candidate, STENCH)
                  THEN "You feel a breeze & You smell a stench"
                  ELSE IF Has(grid, Candidate, BREEZE) THEN "You feel a breeze"
                  ELSE IF Has(grid, Candidate, STENCH) THEN "You smell a stench"
                  ELSE "Return to start with the gold!"]_vars

\* the move that has just returned picked up the gold on a cell that holds
\* neither Breeze nor Stench
C28_Witness ==
    /\ call[1] = "move_player"
    /\ Played("gold")
    /\ ~Has(grid, player_pos, BREEZE)
    /\ ~Has(grid, player_pos, STENCH)
    /\ message = "Return to start with the gold!"

\* the cells a player can stand on without losing
SafeCells == {c \in Cells : ~Has(grid, c, PIT) /\ ~Has(grid, c, WUMPUS)}

\* S and the safe cells reached from S by paths of at most n moves
RECURSIVE SafeReach(_, _)
SafeReach(S, n) ==
    IF n = 0 THEN S
    ELSE SafeReach(UNION {{d} \cup {c \in SafeCells : Adjacent(c, d)} : d \in S},
                   n - 1)

\* there is a path of cells without Pit or Wumpus from the start cell to the
\* cell that holds Gold (and so back, by the same cells)
Winnable ==
    \E g \in CellsWith(GOLD) :
        g \in SafeReach({<<GRID_SIZE - 1, 0>>}, GRID_SIZE * GRID_SIZE)

\* C29: every board that reset_game can generate is winnable: there is a
\* path of cells without Pit or Wumpus from the start cell to the Gold cell
\* and back.
C29_EveryBoardWinnable == JustGenerated => Winnable

=============================================================================
